---- MODULE Spec2Model ----
(***************************************************************************)
(* Foody static web server.  Two variants of the server exist in the       *)
(* repository: web/server.js ("server") and the script embedded in         *)
(* README.md, lines 37-71 ("readme").  A request walks the Express         *)
(* middleware chain of the deployed variant, one layer per step, until a   *)
(* layer sends the response.                                               *)
(*                                                                         *)
(* Strings are sequences of one-character strings.  A request path is a    *)
(* record [names, slash]: its segments and whether it ends in "/".          *)
(***************************************************************************)
EXTENDS Naturals, Sequences, FiniteSets

VARIABLES variant, env, rootExists, files, portFree, proc, exitCode, req, pc, res

vars == <<variant, env, rootExists, files, portFree, proc, exitCode, req, pc, res>>

(* ------------------------------ bounds --------------------------------- *)

\* longest tail appended to a scheme prefix to form a FOODY_API value
MaxTail == 1

\* most files the asset root holds
MaxFiles == 2

(* ------------------------------ strings -------------------------------- *)

DQ == "\""
SQ == "'"
BS == "\\"
NL == "\n"

StartsWith(s, p) == Len(s) >= Len(p) /\ SubSeq(s, 1, Len(p)) = p

EndsWith(s, p) == Len(s) >= Len(p) /\ SubSeq(s, Len(s) - Len(p) + 1, Len(s)) = p

Http == <<"h", "t", "t", "p", ":", "/", "/">>
Https == <<"h", "t", "t", "p", "s", ":", "/", "/">>
Ftp == <<"f", "t", "p", ":", "/", "/">>

\* characters a FOODY_API value may hold after its prefix
TailChars == {DQ, BS, NL}

RECURSIVE SeqsUpTo(_, _)
SeqsUpTo(S, n) ==
  IF n = 0 THEN {<<>>}
  ELSE LET shorter == SeqsUpTo(S, n - 1)
       IN shorter \cup {Append(s, c) : s \in shorter, c \in S}

Unset == <<"<unset>">>

\* values of the environment variable FOODY_API at process start
EnvValues ==
  {Unset, <<>>}
    \cup {p \o t : p \in {Http, Https, Ftp}, t \in SeqsUpTo(TailChars, MaxTail)}

(* --------------------------- config script ----------------------------- *)

\* a plausible slip: the value of the variable used without the '' default
FoodyApiNoDefault(e) == e

\* process.env.FOODY_API || ''
FoodyApi(e) == IF e = Unset THEN <<>> ELSE e

\* JSON.stringify of one character of a string
QuoteChar(c) ==
  IF c = DQ THEN <<BS, DQ>>
  ELSE IF c = BS THEN <<BS, BS>>
  ELSE IF c = NL THEN <<BS, "n">>
  ELSE <<c>>

RECURSIVE QuoteChars(_)
QuoteChars(s) == IF s = <<>> THEN <<>> ELSE QuoteChar(Head(s)) \o QuoteChars(Tail(s))

\* a plausible slip: the value is wrapped in quotes without escaping
JSONStringifyRaw(s) == <<DQ>> \o s \o <<DQ>>

\* JSON.stringify(s) for a string s
JSONStringify(s) == <<DQ>> \o QuoteChars(s) \o <<DQ>>

\* /^https?:\/\//.test(s)
IsHttpUrl(s) == StartsWith(s, Http) \/ StartsWith(s, Https)

AssignServer == "window.foodyApi="
AssignReadme == "window.FOODY_API="
ConsoleError == "console.error('FOODY_API is not set or invalid');"

\* the body web/server.js sends for /config.js
ConfigBodyServer(api) == <<AssignServer>> \o JSONStringify(api) \o <<";">>

\* a plausible slip: the validating variant embeds whatever is configured
ConfigBodyReadmeUnchecked(api) == <<AssignReadme>> \o JSONStringify(api) \o <<";">>

\* the body the README variant sends for /config.js
ConfigBodyReadme(api) ==
  IF api = <<>> \/ ~IsHttpUrl(api)
    THEN <<ConsoleError, " ", AssignReadme, SQ, SQ, ";">>
    ELSE <<AssignReadme>> \o JSONStringify(api) \o <<";">>

(* What a browser makes of the script: the string assigned to the global,  *)
(* or SyntaxError.  A string literal starts at a quote and runs to the     *)
(* next unescaped quote of the same kind; a raw line break inside it is a  *)
(* syntax error; a backslash escapes the character after it.               *)
SyntaxError == <<"<SyntaxError>">>

Unescape(c) == IF c = "n" THEN NL ELSE c

RECURSIVE ReadLiteral(_, _, _)
ReadLiteral(cs, q, acc) ==
  IF cs = <<>> THEN [ok |-> FALSE, value |-> <<>>, rest |-> <<>>]
  ELSE IF Head(cs) = q THEN [ok |-> TRUE, value |-> acc, rest |-> Tail(cs)]
  ELSE IF Head(cs) = NL THEN [ok |-> FALSE, value |-> <<>>, rest |-> <<>>]
  ELSE IF Head(cs) = BS
    THEN IF Len(cs) < 2 THEN [ok |-> FALSE, value |-> <<>>, rest |-> <<>>]
         ELSE ReadLiteral(Tail(Tail(cs)), q, Append(acc, Unescape(cs[2])))
  ELSE ReadLiteral(Tail(cs), q, Append(acc, Head(cs)))

EvalAssignment(body) ==
  IF Len(body) < 2 \/ Head(body) \notin {AssignServer, AssignReadme}
       \/ body[2] \notin {DQ, SQ}
    THEN SyntaxError
    ELSE LET lit == ReadLiteral(Tail(Tail(body)), body[2], <<>>)
         IN IF lit.ok /\ lit.rest = <<";">> THEN lit.value ELSE SyntaxError

EvalScript(body) ==
  IF Len(body) >= 2 /\ body[1] = ConsoleError /\ body[2] = " "
    THEN EvalAssignment(Tail(Tail(body)))
    ELSE EvalAssignment(body)

(* ------------------------------ asset root ----------------------------- *)

HtmlExt == <<"h", "t", "m", "l">>
DotHtml == <<".">> \o HtmlExt

nIndexHtml == <<"i", "n", "d", "e", "x">> \o DotHtml
nHealth == <<"h", "e", "a", "l", "t", "h">>
nHealthHtml == nHealth \o DotHtml
nConfigJs == <<"c", "o", "n", "f", "i", "g", ".", "j", "s">>
nConfigJsHtml == nConfigJs \o DotHtml
nBuyer == <<"b", "u", "y", "e", "r">>
nBuyerHtml == nBuyer \o DotHtml
nLogoPng == <<"l", "o", "g", "o", ".", "p", "n", "g">>
nWeb == <<"w", "e", "b">>
nDotEnv == <<".", "e", "n", "v">>
nMissing == <<"d", "o", "e", "s", "n", "o", "t", "e", "x", "i", "s", "t">>

\* files the asset root may hold, as paths below WEB_DIR
CandidateFiles ==
  { <<nIndexHtml>>, <<nHealth>>, <<nHealthHtml>>, <<nConfigJs>>, <<nConfigJsHtml>>,
    <<nBuyer, nIndexHtml>>, <<nBuyerHtml>>, <<nBuyer, nLogoPng>>,
    <<nWeb, nBuyer, nIndexHtml>>, <<nDotEnv>>, <<nConfigJs, nIndexHtml>> }

IsPrefix(p, f) == Len(p) <= Len(f) /\ SubSeq(f, 1, Len(p)) = p

\* no file lies below another file
TreeShaped(F) == \A f \in F, g \in F : IsPrefix(f, g) => f = g

AssetRoots == {F \in SUBSET CandidateFiles : Cardinality(F) <= MaxFiles /\ TreeShaped(F)}

\* fs.stat(WEB_DIR/p) names a regular file
IsFile(p) == rootExists /\ p \in files

\* fs.stat(WEB_DIR/p) names a directory
IsDir(p) ==
  rootExists /\ (p = <<>> \/ \E f \in files : Len(f) > Len(p) /\ IsPrefix(p, f))

(* ------------------------------ paths ---------------------------------- *)

Path(names, slash) == [names |-> names, slash |-> slash]

NoPath == Path(<<>>, FALSE)
RootPath == Path(<<>>, TRUE)

\* the path as the string the client sent
RECURSIVE Joined(_)
Joined(names) == IF names = <<>> THEN <<>> ELSE <<"/">> \o Head(names) \o Joined(Tail(names))

PathString(p) == Joined(p.names) \o (IF p.slash THEN <<"/">> ELSE <<>>)

\* path.extname of a file name: from its last dot, unless that dot leads the name
RECURSIVE LastDot(_, _)
LastDot(name, i) == IF i = 0 THEN 0 ELSE IF name[i] = "." THEN i ELSE LastDot(name, i - 1)

Extname(name) ==
  LET i == LastDot(name, Len(name))
  IN IF i <= 1 THEN <<>> ELSE SubSeq(name, i, Len(name))

\* send: a path segment that names a dotfile
IsDotfile(name) == Len(name) > 1 /\ name[1] = "."

\* the requests a client sends (all GET)
RequestPaths ==
  { RootPath,
    Path(<<nConfigJs>>, FALSE), Path(<<nConfigJs>>, TRUE), Path(<<nConfigJsHtml>>, FALSE),
    Path(<<nHealth>>, FALSE), Path(<<nIndexHtml>>, FALSE),
    Path(<<nBuyer>>, FALSE), Path(<<nBuyer>>, TRUE),
    Path(<<nWeb>>, FALSE), Path(<<nWeb>>, TRUE),
    Path(<<nWeb, nBuyer>>, FALSE), Path(<<nWeb, nBuyer>>, TRUE),
    Path(<<nWeb, nBuyer, nIndexHtml>>, FALSE), Path(<<nWeb, nBuyer, nLogoPng>>, FALSE),
    Path(<<nWeb, nHealth>>, FALSE), Path(<<nWeb, nDotEnv>>, FALSE),
    Path(<<nWeb, nMissing>>, FALSE), Path(<<nWeb, nMissing \o DotHtml>>, FALSE) }

(* ---------------------------- express.static --------------------------- *)

\* a plausible slip: the extensions option left out
OptsServerNoExtensions == [index |-> nIndexHtml, extensions |-> <<>>]

\* options of the static mounts
OptsServer == [index |-> nIndexHtml, extensions |-> <<HtmlExt>>]
OptsReadme == [index |-> nIndexHtml, extensions |-> <<>>]

Miss == [kind |-> "next", file |-> <<>>]
Found(f) == [kind |-> "file", file |-> f]
ToSlash == [kind |-> "redirect", file |-> <<>>]

\* the first configured extension that makes rel name a file
RECURSIVE TryExtensions(_, _)
TryExtensions(rel, exts) ==
  IF exts = <<>> THEN Miss
  ELSE LET p == [rel EXCEPT ![Len(rel)] = @ \o <<".">> \o Head(exts)]
       IN IF IsFile(p) THEN Found(p) ELSE TryExtensions(rel, Tail(exts))

\* a plausible slip: directories are not redirected and dotfiles are served
ResolveLoose(rel, slash, opts) ==
  IF slash
    THEN IF IsFile(Append(rel, opts.index)) THEN Found(Append(rel, opts.index)) ELSE Miss
  ELSE IF IsFile(rel) THEN Found(rel)
  ELSE IF rel # <<>> /\ Extname(rel[Len(rel)]) = <<>> THEN TryExtensions(rel, opts.extensions)
  ELSE Miss

(* What express.static does with the path below its mount point: dotfiles  *)
(* are ignored; a path ending in "/" is answered by the index file of that *)
(* directory; a file is sent; a directory named without the "/" is         *)
(* redirected to the path with it; a missing path without an extension is  *)
(* tried with each configured extension; anything else falls through.      *)
(* With the asset root missing every lookup falls through.                 *)
Resolve(rel, slash, opts) ==
  IF \E i \in 1..Len(rel) : IsDotfile(rel[i]) THEN Miss
  ELSE IF slash
    THEN IF IsFile(Append(rel, opts.index)) THEN Found(Append(rel, opts.index)) ELSE Miss
  ELSE IF IsFile(rel) THEN Found(rel)
  ELSE IF IsDir(rel) THEN ToSlash
  ELSE IF rel # <<>> /\ Extname(rel[Len(rel)]) = <<>> THEN TryExtensions(rel, opts.extensions)
  ELSE Miss

\* app.use(mount, ...): the path lies at or below the mount point
UnderMount(mount, p) == IsPrefix(mount, p.names)

\* the path the mounted middleware sees
Below(mount, p) == SubSeq(p.names, Len(mount) + 1, Len(p.names))

\* Content-Type of a static file, from its extension
Mime(name) ==
  LET e == Extname(name)
  IN IF e = DotHtml THEN "text/html"
     ELSE IF e = <<".", "j", "s">> THEN "application/javascript"
     ELSE IF e = <<".", "p", "n", "g">> THEN "image/png"
     ELSE "application/octet-stream"


(* ------------------------------ responses ------------------------------ *)

\* a response under construction; status 0 until it is sent, "" for a header not set
EmptyRes ==
  [ status |-> 0, by |-> "", ctype |-> "", text |-> <<>>, file |-> <<>>,
    location |-> NoPath, cacheControl |-> "", pragma |-> "", expires |-> "",
    surrogate |-> "" ]

NoStore == "no-store, no-cache, must-revalidate, proxy-revalidate"

\* a plausible slip: the static mounts registered ahead of the routes
ChainServerStaticFirst == <<"staticWeb", "staticRoot", "config", "health", "root", "final">>

\* the middleware chain of each variant, in registration order
ChainServer == <<"config", "staticWeb", "staticRoot", "health", "root", "final">>
ChainReadme == <<"nocache", "config", "staticWeb", "root", "final">>

Chain == IF variant = "server" THEN ChainServer ELSE ChainReadme

\* the layer the request in flight has reached
Layer == IF pc \in 1..Len(Chain) THEN Chain[pc] ELSE "none"

\* app.get(route, ...): routing is not strict, a trailing "/" is optional
RouteMatch(route, p) == p.names = route

\* res.send and the like: the response is complete
Send(r) == res' = r /\ pc' = 0 /\ UNCHANGED <<variant, env, rootExists, files, portFree, proc, exitCode, req>>

\* next(): the request moves to the following layer
PassOn == pc' = pc + 1 /\ UNCHANGED <<variant, env, rootExists, files, portFree, proc, exitCode, req, res>>

(* ------------------------------- startup ------------------------------- *)

Init ==
  /\ variant \in {"server", "readme"}
  /\ env \in EnvValues
  /\ rootExists \in BOOLEAN
  /\ files \in AssetRoots
  /\ ~rootExists => files = {}
  /\ portFree \in BOOLEAN
  /\ proc = "starting"
  /\ exitCode = 0
  /\ req = NoPath
  /\ pc = 0
  /\ res = EmptyRes

\* app.listen binds the port; nothing looks at WEB_DIR before that
Listen ==
  /\ proc = "starting" /\ portFree
  /\ proc' = "listening"
  /\ UNCHANGED <<variant, env, rootExists, files, portFree, exitCode, req, pc, res>>

\* a plausible slip: swallowing the listen error keeps the process serving
BindFailSwallowed ==
  /\ proc = "starting" /\ ~portFree
  /\ proc' = "listening"
  /\ exitCode' = 1
  /\ UNCHANGED <<variant, env, rootExists, files, portFree, req, pc, res>>

\* the port cannot be bound: the unhandled 'error' event ends the process
BindFail ==
  /\ proc = "starting" /\ ~portFree
  /\ proc' = "exited"
  /\ exitCode' = 1
  /\ UNCHANGED <<variant, env, rootExists, files, portFree, req, pc, res>>

(* ------------------------------- requests ------------------------------ *)

\* a GET arrives; the previous one has been answered
Receive(p) ==
  /\ proc = "listening"
  /\ pc = 0
  /\ req' = p
  /\ pc' = 1
  /\ res' = EmptyRes
  /\ UNCHANGED <<variant, env, rootExists, files, portFree, proc, exitCode>>

Script(body) ==
  [res EXCEPT !.status = 200, !.by = "config",
              !.ctype = "application/javascript; charset=utf-8", !.text = body]

\* web/server.js: app.get('/config.js')
ConfigJs ==
  /\ variant = "server" /\ Layer = "config"
  /\ IF RouteMatch(<<nConfigJs>>, req)
       THEN Send(Script(ConfigBodyServer(FoodyApi(env))))
       ELSE PassOn

\* README variant: app.get('/config.js')
ConfigJsReadme ==
  /\ variant = "readme" /\ Layer = "config"
  /\ IF RouteMatch(<<nConfigJs>>, req)
       THEN Send(Script(ConfigBodyReadme(FoodyApi(env))))
       ELSE PassOn

\* README variant: the middleware that forces no-cache for HTML and /config.js
NoCache ==
  /\ variant = "readme" /\ Layer = "nocache"
  /\ LET path == PathString(req)
     IN res' = IF EndsWith(path, DotHtml) \/ path = <<"/">> \/ path = <<"/">> \o nConfigJs
                 THEN [res EXCEPT !.cacheControl = NoStore, !.pragma = "no-cache",
                                  !.expires = "0", !.surrogate = "no-store"]
                 ELSE res
  /\ pc' = pc + 1
  /\ UNCHANGED <<variant, env, rootExists, files, portFree, proc, exitCode, req>>

\* express.static mounted at `mount`: a file is sent with Cache-Control
\* "public, max-age=0" unless the header is already set; a directory named
\* without its "/" is redirected; anything else falls through
ServeStatic(mount, opts) ==
  IF ~UnderMount(mount, req) THEN PassOn
  ELSE LET r == Resolve(Below(mount, req), req.slash, opts)
       IN IF r.kind = "file"
            THEN Send([res EXCEPT !.status = 200, !.by = "static",
                                  !.ctype = Mime(r.file[Len(r.file)]), !.file = r.file,
                                  !.cacheControl = IF @ = "" THEN "public, max-age=0" ELSE @])
          ELSE IF r.kind = "redirect"
            THEN Send([res EXCEPT !.status = 301, !.by = "static",
                                  !.ctype = "text/html; charset=UTF-8",
                                  !.location = Path(req.names, TRUE)])
          ELSE PassOn

\* web/server.js: app.use('/web', express.static(WEB_DIR, ...))
StaticWeb == variant = "server" /\ Layer = "staticWeb" /\ ServeStatic(<<nWeb>>, OptsServer)

\* web/server.js: app.use(express.static(WEB_DIR, ...))
StaticRoot == variant = "server" /\ Layer = "staticRoot" /\ ServeStatic(<<>>, OptsServer)

\* README variant: app.use('/web', express.static(..., { maxAge: 0 }))
StaticWebReadme == variant = "readme" /\ Layer = "staticWeb" /\ ServeStatic(<<nWeb>>, OptsReadme)

\* web/server.js: app.get('/health')
Health ==
  /\ variant = "server" /\ Layer = "health"
  /\ IF RouteMatch(<<nHealth>>, req)
       THEN Send([res EXCEPT !.status = 200, !.by = "health",
                             !.ctype = "application/json; charset=utf-8",
                             !.text = <<"{\"ok\":true}">>])
       ELSE PassOn

\* res.redirect('/web/buyer/')
Redirect ==
  IF RouteMatch(<<>>, req)
    THEN Send([res EXCEPT !.status = 302, !.by = "redirect",
                          !.ctype = "text/plain; charset=utf-8",
                          !.location = Path(<<nWeb, nBuyer>>, TRUE)])
    ELSE PassOn

\* web/server.js: app.get('/')
RootRedirect == variant = "server" /\ Layer = "root" /\ Redirect

\* README variant: app.get('/')
RootRedirectReadme == variant = "readme" /\ Layer = "root" /\ Redirect

\* no layer answered: Express ends the chain with 404
FinalHandler ==
  /\ Layer = "final"
  /\ Send([res EXCEPT !.status = 404, !.by = "final", !.ctype = "text/html; charset=utf-8"])

Next ==
  \/ Listen
  \/ BindFail
  \/ \E p \in RequestPaths : Receive(p)
  \/ ConfigJs
  \/ StaticWeb
  \/ StaticRoot
  \/ Health
  \/ RootRedirect
  \/ NoCache
  \/ ConfigJsReadme
  \/ StaticWebReadme
  \/ RootRedirectReadme
  \/ FinalHandler

Spec == Init /\ [][Next]_vars


(* ------------------------------- claims -------------------------------- *)

\* the request in flight has been answered
Answered == pc = 0 /\ res.status # 0

ConfigPath == Path(<<nConfigJs>>, FALSE)
HealthPath == Path(<<nHealth>>, FALSE)
BuyerEntry == Path(<<nWeb, nBuyer>>, TRUE)

\* all four cache-forbidding headers are on the response
NoCacheHeaders ==
  /\ res.cacheControl = NoStore
  /\ res.pragma = "no-cache"
  /\ res.expires = "0"
  /\ res.surrogate = "no-store"

\* the response is a static file, and it is file f
Serves(f) == res.status = 200 /\ res.by = "static" /\ res.file = f

\* the request is redirected to its own path with "/" appended
SlashRedirect == res.status = 301 /\ res.location = Path(req.names, TRUE)

\* the path below the static mount that the request addresses: below /web
\* for /web/*, below the fallback mount otherwise
StaticView == IF UnderMount(<<nWeb>>, req) THEN Below(<<nWeb>>, req) ELSE req.names

HasDotfile(rel) == \E i \in 1..Len(rel) : IsDotfile(rel[i])

WithHtml(rel) == [rel EXCEPT ![Len(rel)] = @ \o DotHtml]

Extensionless(rel) == rel # <<>> /\ Extname(rel[Len(rel)]) = <<>>

\* the files a path below a static mount may stand for: itself, the same
\* name with .html, or the index.html of the directory it names
Targets(rel) ==
  {Append(rel, nIndexHtml)}
    \cup (IF req.slash \/ rel = <<>> THEN {} ELSE {rel})
    \cup (IF req.slash \/ ~Extensionless(rel) THEN {} ELSE {WithHtml(rel)})

\* neither static mount finds a file for the request
ResolvesToNoFile ==
  \A f \in Targets(Below(<<nWeb>>, req)) \cup Targets(req.names) : ~IsFile(f)

UnderWeb == UnderMount(<<nWeb>>, req) /\ Len(req.names) >= 2

\* C1 (as claimed; violated by web/server.js): GET / is always answered by the
\* redirect route, with 302 and Location /web/buyer/, whatever the asset root holds.
C1_RootAlwaysRedirects ==
  (variant = "server" /\ Answered /\ req = RootPath)
    => (res.status = 302 /\ res.by = "redirect" /\ res.location = BuyerEntry)

\* C2 (as claimed; violated by web/server.js): GET /health is always answered
\* with 200 and the fixed body {ok:true}, never by a static file and never 404.
C2_HealthAlwaysOk ==
  (variant = "server" /\ Answered /\ req = HealthPath)
    => (res.status = 200 /\ res.by = "health" /\ res.text = <<"{\"ok\":true}">>)

\* C3 (as claimed; violated by web/server.js): every response to /config.js, to /
\* or to a path ending in .html carries the four cache-forbidding headers.
C3_NoCacheOnEntryPaths ==
  (variant = "server" /\ Answered
     /\ (req = ConfigPath \/ req = RootPath \/ EndsWith(PathString(req), DotHtml)))
    => NoCacheHeaders

\* C4: for every FOODY_API that begins with http:// or https://, GET /config.js
\* is 200, application/javascript, and a single assignment whose evaluation
\* yields exactly the configured string.
C4_ConfigRoundTrip ==
  (Answered /\ req = ConfigPath /\ IsHttpUrl(FoodyApi(env)))
    => /\ res.status = 200
       /\ res.ctype = "application/javascript; charset=utf-8"
       /\ Head(res.text) \in {AssignServer, AssignReadme}
       /\ EvalScript(res.text) = env

C4_Witness ==
  /\ Answered /\ req = ConfigPath
  /\ env = Https \o <<DQ>>
  /\ EvalScript(res.text) = env

\* s occurs in text as a run of characters
Occurs(s, text) == \E i \in 1..Len(text) : i + Len(s) - 1 <= Len(text) /\ SubSeq(text, i, i + Len(s) - 1) = s

\* C5: GET /config.js is always 200 with a script that evaluates; it assigns the
\* empty string when FOODY_API is unset or empty, and in the validating variant
\* also for every value that is no http(s) URL, which is then not in the body.
C5_ConfigDegradesToEmpty ==
  (Answered /\ req = ConfigPath)
    => /\ res.status = 200
       /\ EvalScript(res.text) # SyntaxError
       /\ env \in {Unset, <<>>} => EvalScript(res.text) = <<>>
       /\ (variant = "readme" /\ ~IsHttpUrl(FoodyApi(env)))
            => (EvalScript(res.text) = <<>> /\ (env # <<>> => ~Occurs(env, res.text)))

C5_Witness ==
  /\ Answered /\ req = ConfigPath
  /\ variant = "server" /\ env = Unset
  /\ EvalScript(res.text) = <<>>

C7_Original ==
  (variant = "server" /\ Answered /\ ~HasDotfile(StaticView))
    => /\ (req.slash /\ IsFile(Append(StaticView, nIndexHtml)))
            => Serves(Append(StaticView, nIndexHtml))
       /\ (~req.slash /\ Extensionless(StaticView) /\ IsFile(WithHtml(StaticView))
             /\ ~IsFile(StaticView))
            => Serves(WithHtml(StaticView))

\* C7 (amended, for web/server.js and paths the /config.js route does not take):
\* a directory path ending in "/" is answered with the directory's index.html
\* when it exists; a directory path without the "/" is answered 301 to the path
\* with "/"; an extension-less path P is answered with P.html when that exists
\* and neither a file nor a directory named P does.
C7_StaticResolution ==
  (variant = "server" /\ Answered /\ ~HasDotfile(StaticView)
     /\ ~RouteMatch(<<nConfigJs>>, req))
    => /\ (req.slash /\ IsFile(Append(StaticView, nIndexHtml)))
            => Serves(Append(StaticView, nIndexHtml))
       /\ (~req.slash /\ IsDir(StaticView)) => SlashRedirect
       /\ (~req.slash /\ Extensionless(StaticView) /\ IsFile(WithHtml(StaticView))
             /\ ~IsFile(StaticView) /\ ~IsDir(StaticView))
            => Serves(WithHtml(StaticView))

C7_Witness ==
  /\ variant = "server" /\ Answered /\ req = Path(<<nWeb, nHealth>>, FALSE)
  /\ ~IsFile(<<nHealth>>)
  /\ Serves(<<nHealthHtml>>)

C9_HtmlNeverCached ==
  (variant = "server" /\ Answered /\ res.by = "static" /\ res.status = 200
     /\ EndsWith(res.file[Len(res.file)], DotHtml))
    => NoCacheHeaders

\* C10: GET /config.js is always answered by the generated-script handler, never
\* by a static file, so its body is a function of FOODY_API alone.
C10_ConfigNeverStatic ==
  (Answered /\ req = ConfigPath)
    => /\ res.by = "config"
       /\ res.file = <<>>
       /\ res.text = IF variant = "server" THEN ConfigBodyServer(FoodyApi(env))
                                            ELSE ConfigBodyReadme(FoodyApi(env))

C10_Witness ==
  /\ Answered /\ req = ConfigPath
  /\ IsFile(<<nConfigJs>>)
  /\ res.by = "config"


====
